---- MODULE Spec2Model ----
(***************************************************************************)
(* GAN inversion (MGANPrior_Reproduce): the derivable generator wrappers   *)
(* of Derivable_Models/Derivable_Generator.py, the stage list built by     *)
(* GAN/pggan_generator_network.py and the optimisation loop of             *)
(* inversion/inversion_methods.py.                                         *)
(*                                                                         *)
(* Three specifications share the module:                                  *)
(*   Spec      one call of GradientDescent.invert, statement by statement  *)
(*   SpecGen   get_derivable_generator, input_size, init_value and the     *)
(*             shapes that flow through PGGAN_multi_z.forward              *)
(*   SpecFuse  the arithmetic of PGGAN_multi_z.forward on small maps       *)
(*                                                                         *)
(* A tensor is a record of its shape and of the value of one element (all  *)
(* the operations modelled here, zeros/randn/full, the optimizer update    *)
(* and deepcopy, act element by element).  Values are exact fractions      *)
(* <<numerator, denominator>>.                                             *)
(***************************************************************************)
EXTENDS Integers, Sequences, FiniteSets, TLC

VARIABLES
    \* ---- GradientDescent.invert (Spec) --------------------------------
    pc,              \* position in invert
    generator,       \* the generator object passed to invert
    iterations,      \* self.iterations
    lr,              \* self.lr
    optimizer_cls,   \* self.optimizer: "SGD" or "Adam"
    init_type,       \* self.init_type
    batch_size,      \* argument batch_size
    video,           \* argument video
    init,            \* *init: references of the tensors the caller passed
    heap,            \* every tensor object alive, by reference (index)
    latent_estimate, \* references of the latent tensors
    optimizer,       \* the optimizer instance
    history,         \* list of lists of references
    i,               \* loop index of line 55
    y_estimate,      \* result of the last forward pass
    loss,            \* last loss value
    err,             \* exception raised, "" when none
    \* history variables of the run (not program state)
    steps,           \* optimizer steps performed
    forwards,        \* forward passes performed
    events,          \* events of the current iteration, in order
    after,           \* latent values right after each optimizer step
    applied,         \* provenance of the gradient used by the last step
    heap0,           \* the heap when invert was called
    initial,         \* latent values when the loop is entered
    mutated,         \* the caller changed the returned latents
    \* ---- generator construction and shapes (SpecGen) -------------------
    g_pc,
    gan_model_name,
    generator_type,
    composing_layer,
    z_number,
    g_batch,
    g_result,        \* what get_derivable_generator returned or raised
    constructed,     \* wrapper classes instantiated, in order
    g_sizes,         \* result of input_size()
    g_latents,       \* result of init_value(batch)
    g_fwd,           \* outcome of forward on tensors of the declared shapes
    \* ---- PGGAN_multi_z.forward arithmetic (SpecFuse) -------------------
    f_pc,
    f_z_number,
    f_pre,           \* which pre-stage function is bound
    f_z,             \* z_estimate: code index -> latent code
    f_alpha,         \* alpha_estimate: code index -> channel -> weight
    f_j,             \* loop index of line 105
    f_list,          \* feature_maps_list
    f_fused,         \* fused_feature_map
    f_y,             \* y_estimate
    \* ---- PGGANGeneratorNet.forward (SpecNet) ---------------------------
    n_pc,
    n_resolution,    \* argument resolution of __init__
    n_lod2,          \* self.lod in halves (lod = n_lod2 / 2)
    n_z,             \* shape of the argument z
    n_res_log2,      \* loop variable of line 187
    n_x,             \* shape of the local x, without the batch dimension
    n_image,         \* shape of the local image, <<>> while it is unbound
    n_trace,         \* what each pass of the loop did, in order (history)
    n_err            \* exception raised, "" when none

ivars == <<pc, generator, iterations, lr, optimizer_cls, init_type, batch_size,
           video, init, heap, latent_estimate, optimizer, history, i,
           y_estimate, loss, err, steps, forwards, events, after, applied,
           heap0, initial, mutated>>
gvars == <<g_pc, gan_model_name, generator_type, composing_layer, z_number,
           g_batch, g_result, constructed, g_sizes, g_latents, g_fwd>>
fvars == <<f_pc, f_z_number, f_pre, f_z, f_alpha, f_j, f_list, f_fused, f_y>>
nvars == <<n_pc, n_resolution, n_lod2, n_z, n_res_log2, n_x, n_image, n_trace,
           n_err>>
vars == <<ivars, gvars, fvars, nvars>>

----------------------------------------------------------------------------
\* Bounds of the model.
MaxIter == 2
MaxInit == 3
MaxZ == 3
MaxBatch == 2
MaxLr == 1
NumGenParams == 2
LodMargin == 2

----------------------------------------------------------------------------
\* Python helpers.

Range(s) == {s[k] : k \in 1..Len(s)}

Min(a, b) == IF a < b THEN a ELSE b

Max(a, b) == IF a > b THEN a ELSE b

Abs(a) == IF a < 0 THEN -a ELSE a

Sgn(a) == IF a > 0 THEN 1 ELSE IF a < 0 THEN -1 ELSE 0

RECURSIVE Gcd(_, _)
Gcd(a, b) == IF b = 0 THEN a ELSE Gcd(b, a % b)

\* TrueDiv as the integer division a // b.
FloorDiv(a, b) == <<a \div b, 1>>

\* a / b of Python 3: true division, here an exact fraction in lowest terms.
TrueDiv(a, b) ==
    LET g == Gcd(Abs(a), Abs(b))
        s == IF b < 0 THEN -1 ELSE 1
    IN  <<(s * a) \div g, (s * b) \div g>>

\* seq[idx] with a Python index: negative indices count from the end.
PyIndexOk(seq, idx) == -Len(seq) <= idx /\ idx < Len(seq)

PyIndex(seq, idx) == IF idx < 0 THEN seq[Len(seq) + idx + 1] ELSE seq[idx + 1]

\* The clamped bound of a Python slice.
PyBound(seq, idx) ==
    IF idx < 0 THEN Max(Len(seq) + idx, 0) ELSE Min(idx, Len(seq))

\* seq[:idx]
PySliceTo(seq, idx) == SubSeq(seq, 1, PyBound(seq, idx))

\* seq[idx:]
PySliceFrom(seq, idx) == SubSeq(seq, PyBound(seq, idx) + 1, Len(seq))

----------------------------------------------------------------------------
\* GAN/pggan_generator_network.py: the stage list of PGGANGeneratorNet and
\* the shape each stage produces.

_RESOLUTIONS_ALLOWED == {8, 16, 32, 64, 128, 256, 512, 1024}

_INIT_RES == 4

z_space_dim == 512

image_channels == 3

fmaps_base == 16384

fmaps_max == 512

RECURSIVE Log2(_)
Log2(n) == IF n <= 1 THEN 0 ELSE 1 + Log2(n \div 2)

RECURSIVE Pow2(_)
Pow2(n) == IF n = 0 THEN 1 ELSE 2 * Pow2(n - 1)

get_nf(res) == Min(fmaps_base \div res, fmaps_max)

\* ConvBlock(in_channels, out_channels, kernel_size, padding, upsample), with
\* stride 1 and dilation 1 as everywhere in the generator.
ConvBlock(name, in_channels, out_channels, kernel_size, padding, upsample) ==
    [name |-> name, cls |-> "ConvBlock", in_channels |-> in_channels,
     out_channels |-> out_channels, kernel_size |-> kernel_size,
     padding |-> padding, upsample |-> upsample]

ResolutionScalingLayer(name) ==
    [name |-> name, cls |-> "ResolutionScalingLayer", in_channels |-> 0,
     out_channels |-> 0, kernel_size |-> 0, padding |-> 0, upsample |-> TRUE]

\* The three modules add_module registers for one resolution.
BlockModules(res_log2) ==
    LET res == Pow2(res_log2)
        block_idx == res_log2 - Log2(_INIT_RES)
        first == IF res = _INIT_RES
                 THEN ConvBlock(<<"layer", 2 * block_idx>>, z_space_dim,
                                get_nf(res), _INIT_RES, 3, FALSE)
                 ELSE ConvBlock(<<"layer", 2 * block_idx>>, get_nf(res \div 2),
                                get_nf(res), 3, 1, TRUE)
    IN  << first,
           ConvBlock(<<"layer", 2 * block_idx + 1>>, get_nf(res), get_nf(res),
                     3, 1, FALSE),
           ConvBlock(<<"output", block_idx>>, get_nf(res), image_channels,
                     1, 0, FALSE) >>

RECURSIVE BlocksUpTo(_, _)
BlocksUpTo(res_log2, final_res_log2) ==
    IF res_log2 > final_res_log2 THEN <<>>
    ELSE BlockModules(res_log2) \o BlocksUpTo(res_log2 + 1, final_res_log2)

\* list(net.children()) of a PGGANGeneratorNet(resolution): the registration
\* order of __init__ (lod is a parameter, not a child).
PGGANGeneratorNet_children(resolution) ==
    BlocksUpTo(Log2(_INIT_RES), Log2(resolution))
        \o <<ResolutionScalingLayer(<<"upsample", 0>>)>>

\* Outcome of a shape computation.
ShapeOk(shape) == [ok |-> TRUE, shape |-> shape]

ShapeError == [ok |-> FALSE, shape |-> <<>>]

\* ConvBlock.forward on a (channels, height, width) feature map: pixel norm,
\* optional 2x upsampling, convolution, weight scale, activation.
ConvBlock_forward(layer, x) ==
    LET up == IF layer.upsample THEN 2 ELSE 1
        h == x[2] * up + 2 * layer.padding - layer.kernel_size + 1
        w == x[3] * up + 2 * layer.padding - layer.kernel_size + 1
    IN  IF x[1] # layer.in_channels \/ h < 1 \/ w < 1 THEN ShapeError
        ELSE ShapeOk(<<layer.out_channels, h, w>>)

ResolutionScalingLayer_forward(layer, x) == ShapeOk(<<x[1], 2 * x[2], 2 * x[3]>>)

Layer_forward(layer, x) ==
    IF layer.cls = "ConvBlock" THEN ConvBlock_forward(layer, x)
    ELSE ResolutionScalingLayer_forward(layer, x)

\* nn.Sequential applied to x; an empty Sequential returns its input.
RECURSIVE Sequential_forward(_, _)
Sequential_forward(stages, r) ==
    IF ~r.ok \/ stages = <<>> THEN r
    ELSE Sequential_forward(Tail(stages), Layer_forward(Head(stages), r.shape))

----------------------------------------------------------------------------
\* Derivable_Models/Derivable_Generator.py

PGGAN_LATENT_1024 ==
    << <<512, 1, 1>>,
       <<512, 4, 4>>, <<512, 4, 4>>,
       <<512, 8, 8>>, <<512, 8, 8>>,
       <<512, 16, 16>>, <<512, 16, 16>>,
       <<512, 32, 32>>, <<512, 32, 32>>,
       <<256, 64, 64>>, <<256, 64, 64>>,
       <<128, 128, 128>>, <<128, 128, 128>>,
       <<64, 256, 256>>, <<64, 256, 256>>,
       <<32, 512, 512>>, <<32, 512, 512>>,
       <<16, 1024, 1024>>, <<16, 1024, 1024>>,
       <<3, 1024, 1024>> >>

PGGAN_LATENT_256 ==
    << <<512, 1, 1>>, <<512, 4, 4>>,
       <<512, 4, 4>>, <<512, 8, 8>>,
       <<512, 8, 8>>, <<512, 16, 16>>,
       <<512, 16, 16>>, <<512, 32, 32>>,
       <<512, 32, 32>>, <<256, 64, 64>>,
       <<256, 64, 64>>, <<128, 128, 128>>,
       <<128, 128, 128>>, <<64, 256, 256>>,
       <<64, 256, 256>>, <<3, 256, 256>> >>

\* Stage index -> index among the network's children, which also hold the
\* intermediate output layers.
PGGAN_LAYER_MAPPING ==
    (0 :> 0) @@ (1 :> 1) @@ (2 :> 3) @@ (3 :> 4) @@ (4 :> 6) @@ (5 :> 7)
        @@ (6 :> 9) @@ (7 :> 10) @@ (8 :> 12)

\* Derivable_Models/Gan_Utils.py is not part of the sources.  The bound model
\* is the 1024 network for 'PGGAN-CelebA' and a 256 network otherwise, and the
\* generator handed to the wrappers is its ordered stage list: the convolution
\* stages and the final to-image projection, one per boundary of the topology
\* table (the intermediate output layers and the bare upsampling layer, which
\* PGGAN_LAYER_MAPPING skips, are not stages).
ModelResolution(gan_model_name_) ==
    IF gan_model_name_ = "PGGAN-CelebA" THEN 1024 ELSE 256

get_gan_model(gan_model_name_) ==
    LET all == PGGANGeneratorNet_children(ModelResolution(gan_model_name_))
        last == Log2(ModelResolution(gan_model_name_)) - Log2(_INIT_RES)
        IsStage(m) == m.name[1] = "layer" \/ m.name = <<"output", last>>
    IN  SelectSeq(all, IsStage)

\* What a call returns or raises.
None == [cls |-> "None"]

\* calls: the wrapper constructors the call entered, in order.
Returns(v) ==
    [raised |-> FALSE, exc |-> "", msg |-> <<>>, value |-> v, calls |-> <<v.cls>>]

Raises(exc, msg, calls) ==
    [raised |-> TRUE, exc |-> exc, msg |-> msg, value |-> None, calls |-> calls]

NoResult ==
    [raised |-> FALSE, exc |-> "", msg |-> <<>>, value |-> None, calls |-> <<>>]

\* PGGAN.__init__
PGGAN_new(gan_model_name_) ==
    Returns([cls |-> "PGGAN", gan_model_name |-> gan_model_name_,
             init |-> FALSE])

\* PGGAN_multi_z.__init__; indexing the topology table raises IndexError.
PGGAN_multi_z_new(gan_model_name_, blending_layer, z_number_) ==
    LET PGGAN_LATENT == IF gan_model_name_ = "PGGAN-CelebA"
                        THEN PGGAN_LATENT_1024 ELSE PGGAN_LATENT_256
    IN  IF ~PyIndexOk(PGGAN_LATENT, blending_layer)
        THEN Raises("IndexError", <<"list", "index", "out", "of", "range">>,
                    <<"PGGAN_multi_z">>)
        ELSE Returns(
            [cls |-> "PGGAN_multi_z", gan_model_name |-> gan_model_name_,
             blending_layer |-> blending_layer, z_number |-> z_number_,
             z_dim |-> 512, init |-> TRUE,
             mask_size |-> Tail(PyIndex(PGGAN_LATENT, blending_layer)),
             layer_c_number |-> PyIndex(PGGAN_LATENT, blending_layer)[1]])

pre_model(self) ==
    PySliceTo(get_gan_model(self.gan_model_name), self.blending_layer)

post_model(self) ==
    PySliceFrom(get_gan_model(self.gan_model_name), self.blending_layer)

\* The message of the exception of line 46, word by word (the back quotes
\* around the parameter's name left out).
InvalidTypeMessage == <<"Please", "indicate", "valid", "generator_type">>

\* get_derivable_generator falling back to the single-code wrapper.
get_derivable_generator_fallback(gan_model_name_, generator_type_, composing_layer_, z_number_) ==
    IF generator_type_ = "PGGAN-Multi-Z"
    THEN PGGAN_multi_z_new(gan_model_name_, composing_layer_, z_number_)
    ELSE PGGAN_new(gan_model_name_)

get_derivable_generator(gan_model_name_, generator_type_, composing_layer_, z_number_) ==
    IF generator_type_ = "PGGAN-z" THEN PGGAN_new(gan_model_name_)
    ELSE IF generator_type_ = "PGGAN-Multi-Z"
    THEN PGGAN_multi_z_new(gan_model_name_, composing_layer_, z_number_)
    ELSE Raises("Exception", InvalidTypeMessage, <<>>)

input_size(self) ==
    IF self.cls = "PGGAN" THEN << <<512>> >>
    ELSE << <<self.z_number, self.z_dim>>,
            <<self.z_number, self.layer_c_number>> >>

\* Tensors: shape, the value of an element, the accumulated gradient with the
\* iterations it was accumulated in (empty: no gradient), requires_grad.
Tensor(shape, val) ==
    [shape |-> shape, val |-> val, grad |-> 0, prov |-> {},
     requires_grad |-> FALSE]

torch_zeros(size) == Tensor(size, <<0, 1>>)

\* torch.randn: sample is the value drawn.
torch_randn(size, sample) == Tensor(size, <<sample, 1>>)

torch_full(size, fill_value) == Tensor(size, fill_value)

\* PGGAN_multi_z.init_value
init_value(self, batch_size_, sample) ==
    LET z_estimate == torch_randn(<<batch_size_, self.z_number, self.z_dim>>, sample)
        z_alpha == torch_full(<<batch_size_, self.z_number, self.layer_c_number>>,
                              TrueDiv(1, self.z_number))
    IN  <<z_estimate, z_alpha>>

\* PGGAN_multi_z.forward on tensors of shapes zs = <<z_estimate, alpha_estimate>>,
\* shapes only: [ok, pre, out] with pre the shape the pre-stage produced from
\* one code and out the shape of the image; ok is FALSE on a shape error.
PGGAN_multi_z_forward_shape(self, zs) ==
    LET bad == [ok |-> FALSE, pre |-> <<>>, out |-> <<>>]
    IN  IF Len(zs) # 2 THEN bad
        ELSE
        LET zsh == zs[1]
            ash == zs[2]
        IN  IF \/ Len(zsh) # 3 \/ Len(ash) # 3
               \/ zsh[2] < self.z_number \/ ash[2] < self.z_number
               \/ (zsh[1] * zsh[3]) % self.z_dim # 0
               \/ (ash[1] * ash[3]) % self.layer_c_number # 0
            THEN bad
            ELSE
            LET zb == (zsh[1] * zsh[3]) \div self.z_dim
                ab == (ash[1] * ash[3]) \div self.layer_c_number
                feat == Sequential_forward(pre_model(self),
                                           ShapeOk(<<self.z_dim, 1, 1>>))
            IN  IF ~feat.ok THEN bad
                ELSE IF \/ ~(zb = ab \/ zb = 1 \/ ab = 1)
                        \/ ~(feat.shape[1] = self.layer_c_number
                             \/ feat.shape[1] = 1 \/ self.layer_c_number = 1)
                THEN [bad EXCEPT !.pre = feat.shape]
                ELSE
                LET fused == <<Max(feat.shape[1], self.layer_c_number),
                               feat.shape[2], feat.shape[3]>>
                    y == Sequential_forward(post_model(self), ShapeOk(fused))
                IN  [ok |-> y.ok, pre |-> feat.shape, out |-> y.shape]

\* PGGAN.forward: the latent goes to the network, which checks its shape
\* (pggan_generator_network.py line 174).
PGGAN_forward_shape(self, zs) ==
    IF Len(zs) >= 1 /\ Len(zs[1]) = 2 /\ zs[1][2] = z_space_dim
    THEN [ok |-> TRUE, pre |-> <<>>,
          out |-> <<image_channels, ModelResolution(self.gan_model_name),
                    ModelResolution(self.gan_model_name)>>]
    ELSE [ok |-> FALSE, pre |-> <<>>, out |-> <<>>]

forward_shape(self, zs) ==
    IF self.cls = "PGGAN" THEN PGGAN_forward_shape(self, zs)
    ELSE PGGAN_multi_z_forward_shape(self, zs)

----------------------------------------------------------------------------
\* inversion/inversion_methods.py: GradientDescent.invert

Samples == {-1, 1}

Grads == {-1, 1}

Losses == {"zero", "positive", "nan"}

\* The generators a run is given: both wrappers, bound to the 1024 model.
InvertGenerators ==
    {get_derivable_generator("PGGAN-CelebA", t, 6, MaxZ).value :
        t \in {"PGGAN-z", "PGGAN-Multi-Z"}}

\* The generator's own parameters are the first NumGenParams tensors.
GenParams == 1..NumGenParams

NoOptimizer == [params |-> <<>>, exp_avg |-> <<>>]

NoImage == [reads |-> <<>>, shape |-> <<>>]

Vals(h, refs) == [k \in 1..Len(refs) |-> h[refs[k]].val]

\* A tensor the caller made before the call.
CallerTensor(shape, used) ==
    [shape |-> shape, val |-> <<1, 1>>, grad |-> IF used THEN 1 ELSE 0,
     prov |-> IF used THEN {0} ELSE {}, requires_grad |-> used]

InitInvert ==
    /\ pc = "init"
    /\ generator \in InvertGenerators
    /\ iterations \in 0..MaxIter
    /\ lr \in 1..MaxLr
    /\ optimizer_cls \in {"SGD", "Adam"}
    /\ init_type \in {"Zero", "Normal"}
    /\ batch_size \in {1, MaxBatch}
    /\ video \in BOOLEAN
    /\ \E n \in 0..MaxInit, used \in BOOLEAN, fits \in BOOLEAN :
          LET sizes == input_size(generator)
              shape(k) == IF fits
                          THEN <<batch_size>> \o sizes[Min(k, Len(sizes))]
                          ELSE <<batch_size, 7>>
          IN  /\ n = 0 => (used /\ fits)
              /\ heap = [k \in 1..(NumGenParams + n) |->
                            IF k <= NumGenParams
                            THEN [Tensor(<<>>, <<0, 1>>) EXCEPT !.requires_grad = TRUE]
                            ELSE CallerTensor(shape(k - NumGenParams), used)]
              /\ init = [k \in 1..n |-> NumGenParams + k]
    /\ heap0 = heap
    /\ latent_estimate = <<>>
    /\ optimizer = NoOptimizer
    /\ history = <<>>
    /\ i = 0
    /\ y_estimate = NoImage
    /\ loss = ""
    /\ err = ""
    /\ steps = 0
    /\ forwards = 0
    /\ events = <<>>
    /\ after = <<>>
    /\ applied = <<>>
    /\ initial = <<>>
    /\ mutated = FALSE

\* CheckInit with the assertion left out.
CheckInit_absent(init_, input_size_list) == TRUE

\* Line 44: the assertion on the number of explicit starting latents.
CheckInit(init_, input_size_list) == Len(init_) = Len(input_size_list)

\* OptimizerParams handing the optimizer the generator's parameters too.
OptimizerParams_with_generator(latent_estimate_) ==
    latent_estimate_ \o [k \in 1..NumGenParams |-> k]

\* Line 50: the tensors the optimizer is constructed with.
OptimizerParams(latent_estimate_) == latent_estimate_

\* FreshLatents never asking the generator: the fill strategy in every case.
FreshLatents_always_fill(sample) ==
    LET input_size_list == input_size(generator)
    IN  IF init_type = "Zero"
        THEN [k \in 1..Len(input_size_list) |->
                 torch_zeros(<<batch_size>> \o input_size_list[k])]
        ELSE [k \in 1..Len(input_size_list) |->
                 torch_randn(<<batch_size>> \o input_size_list[k], sample)]

\* Lines 29-45: the starting latents, as new tensors to allocate (fresh) or
\* as references to the caller's tensors.
FreshLatents(sample) ==
    LET input_size_list == input_size(generator)
    IN  IF generator.init = FALSE
        THEN IF init_type = "Zero"
             THEN [k \in 1..Len(input_size_list) |->
                      torch_zeros(<<batch_size>> \o input_size_list[k])]
             ELSE IF init_type = "Normal"
             THEN [k \in 1..Len(input_size_list) |->
                      torch_randn(<<batch_size>> \o input_size_list[k], sample)]
             ELSE <<>>
        ELSE init_value(generator, batch_size, sample)

\* Lines 27-52.
Initialize ==
    /\ pc = "init"
    /\ IF Len(init) # 0 /\ ~CheckInit(init, input_size(generator))
       THEN /\ pc' = "error"
            /\ err' = "AssertionError"
            /\ UNCHANGED <<heap, latent_estimate, optimizer, initial>>
       ELSE \E sample \in Samples :
            LET fresh == IF Len(init) = 0 THEN FreshLatents(sample) ELSE <<>>
                refs == IF Len(init) = 0
                        THEN [k \in 1..Len(fresh) |-> Len(heap) + k]
                        ELSE init
                h1 == heap \o fresh
                h2 == [k \in 1..Len(h1) |->
                          IF k \in Range(refs)
                          THEN [h1[k] EXCEPT !.requires_grad = TRUE]
                          ELSE h1[k]]
                params == OptimizerParams(refs)
            IN  /\ latent_estimate' = refs
                /\ heap' = h2
                /\ initial' = Vals(h2, refs)
                /\ IF params = <<>>
                   THEN /\ pc' = "error"
                        /\ err' = "ValueError"
                        /\ UNCHANGED optimizer
                   ELSE /\ pc' = "loop"
                        /\ err' = err
                        /\ optimizer' = [params |-> params,
                                         exp_avg |-> [k \in 1..Len(params) |-> 0]]
    /\ history' = <<>>
    /\ UNCHANGED <<generator, iterations, lr, optimizer_cls, init_type,
                   batch_size, video, init, i, y_estimate, loss, steps,
                   forwards, events, after, applied, heap0, mutated>>
    /\ UNCHANGED <<gvars, fvars, nvars>>

\* Line 55: range(self.iterations) has another index.
LoopContinues(i_, iterations_) == i_ < iterations_

\* Lines 55 and 65: the head of the loop, and the return when it is exhausted.
LoopHead ==
    /\ pc = "loop"
    /\ IF LoopContinues(i, iterations)
       THEN pc' = "forward"
       ELSE pc' = "done"
    /\ events' = <<>>
    /\ UNCHANGED <<generator, iterations, lr, optimizer_cls, init_type,
                   batch_size, video, init, heap, latent_estimate, optimizer,
                   history, i, y_estimate, loss, err, steps, forwards, after,
                   applied, heap0, initial, mutated>>
    /\ UNCHANGED <<gvars, fvars, nvars>>

\* Line 56: y_estimate = generator(latent_estimate).
Forward ==
    /\ pc = "forward"
    /\ LET r == forward_shape(generator,
                              [k \in 1..Len(latent_estimate) |->
                                  heap[latent_estimate[k]].shape])
       IN  IF r.ok
           THEN /\ y_estimate' = [reads |-> Vals(heap, latent_estimate),
                                  shape |-> r.out]
                /\ pc' = "zero_grad"
                /\ err' = err
           ELSE /\ pc' = "error"
                /\ err' = "ShapeError"
                /\ UNCHANGED y_estimate
    /\ forwards' = forwards + 1
    /\ events' = Append(events, "forward")
    /\ UNCHANGED <<generator, iterations, lr, optimizer_cls, init_type,
                   batch_size, video, init, heap, latent_estimate, optimizer,
                   history, i, loss, steps, after, applied, heap0, initial,
                   mutated>>
    /\ UNCHANGED <<gvars, fvars, nvars>>

\* zero_grad clearing nothing.
zero_grad_nothing(h, params) == h

\* optimizer.zero_grad(): the gradients of the optimizer's parameters are
\* cleared.
zero_grad(h, params) ==
    [k \in 1..Len(h) |->
        IF k \in Range(params) THEN [h[k] EXCEPT !.grad = 0, !.prov = {}]
        ELSE h[k]]

\* Line 57.
ZeroGrad ==
    /\ pc = "zero_grad"
    /\ heap' = zero_grad(heap, optimizer.params)
    /\ pc' = "loss"
    /\ events' = Append(events, "zero_grad")
    /\ UNCHANGED <<generator, iterations, lr, optimizer_cls, init_type,
                   batch_size, video, init, latent_estimate, optimizer,
                   history, i, y_estimate, loss, err, steps, forwards, after,
                   applied, heap0, initial, mutated>>
    /\ UNCHANGED <<gvars, fvars, nvars>>

\* Loss with an early stop: the loop is left once the loss is zero.
Loss_early_stop ==
    /\ pc = "loss"
    /\ loss' \in Losses
    /\ pc' = IF loss' = "zero" THEN "done" ELSE "backward"
    /\ events' = Append(events, "loss")
    /\ UNCHANGED <<generator, iterations, lr, optimizer_cls, init_type,
                   batch_size, video, init, heap, latent_estimate, optimizer,
                   history, i, y_estimate, err, steps, forwards, after,
                   applied, heap0, initial, mutated>>
    /\ UNCHANGED <<gvars, fvars, nvars>>

\* Line 60: loss = loss_function(y_estimate, gt_image); any value may come out.
Loss ==
    /\ pc = "loss"
    /\ loss' \in Losses
    /\ pc' = "backward"
    /\ events' = Append(events, "loss")
    /\ UNCHANGED <<generator, iterations, lr, optimizer_cls, init_type,
                   batch_size, video, init, heap, latent_estimate, optimizer,
                   history, i, y_estimate, err, steps, forwards, after,
                   applied, heap0, initial, mutated>>
    /\ UNCHANGED <<gvars, fvars, nvars>>

\* loss.backward(): g is added to the gradient of every leaf of the graph
\* that requires a gradient, the latents and the generator's parameters.
backward(h, leaves, g, iteration) ==
    [k \in 1..Len(h) |->
        IF k \in leaves /\ h[k].requires_grad
        THEN [h[k] EXCEPT !.grad = @ + g, !.prov = @ \cup {iteration}]
        ELSE h[k]]

\* Line 61.
Backward ==
    /\ pc = "backward"
    /\ \E g \in Grads :
          heap' = backward(heap, Range(latent_estimate) \cup GenParams, g, i + 1)
    /\ pc' = "step"
    /\ events' = Append(events, "backward")
    /\ UNCHANGED <<generator, iterations, lr, optimizer_cls, init_type,
                   batch_size, video, init, latent_estimate, optimizer,
                   history, i, y_estimate, loss, err, steps, forwards, after,
                   applied, heap0, initial, mutated>>
    /\ UNCHANGED <<gvars, fvars, nvars>>

\* The first moment Adam keeps for each parameter (its decay rates left out).
NewExpAvg(opt, h) ==
    [k \in 1..Len(opt.params) |-> opt.exp_avg[k] + h[opt.params[k]].grad]

\* The move of parameter k: proportional to the gradient (SGD), or a unit
\* step along the first moment (Adam).
Update(opt, h, k) ==
    IF optimizer_cls = "SGD" THEN lr * h[opt.params[k]].grad
    ELSE lr * Sgn(NewExpAvg(opt, h)[k])

\* optimizer.step(): every parameter of the optimizer that has a gradient
\* moves; nothing else does.
optimizer_step(opt, h) ==
    [t \in 1..Len(h) |->
        IF \E k \in 1..Len(opt.params) : opt.params[k] = t /\ h[t].prov # {}
        THEN LET k == CHOOSE k \in 1..Len(opt.params) : opt.params[k] = t
             IN  [h[t] EXCEPT !.val = <<@[1] - Update(opt, h, k) * @[2], @[2]>>]
        ELSE h[t]]

\* Line 62.
Step ==
    /\ pc = "step"
    /\ heap' = optimizer_step(optimizer, heap)
    /\ optimizer' = IF optimizer_cls = "Adam"
                    THEN [optimizer EXCEPT !.exp_avg = NewExpAvg(optimizer, heap)]
                    ELSE optimizer
    /\ steps' = steps + 1
    /\ after' = Append(after, Vals(heap', latent_estimate))
    /\ applied' = [k \in 1..Len(optimizer.params) |-> heap[optimizer.params[k]].prov]
    /\ pc' = "record"
    /\ events' = Append(events, "step")
    /\ UNCHANGED <<generator, iterations, lr, optimizer_cls, init_type,
                   batch_size, video, init, latent_estimate, history, i,
                   y_estimate, loss, err, forwards, heap0, initial, mutated>>
    /\ UNCHANGED <<gvars, fvars, nvars>>

\* copy_deepcopy copying the list only: the entry shares the live tensors.
copy_shallow(h, refs) == [heap |-> h, refs |-> refs]

\* copy.deepcopy(latent_estimate): new tensor objects with the same contents.
copy_deepcopy(h, refs) ==
    [heap |-> h \o [k \in 1..Len(refs) |-> h[refs[k]]],
     refs |-> [k \in 1..Len(refs) |-> Len(h) + k]]

\* ShouldRecord ignoring the video flag.
ShouldRecord_always(video_) == TRUE

\* Line 63: whether the iteration is recorded.
ShouldRecord(video_) == video_

\* Lines 63-64, and the end of the loop body.
Record ==
    /\ pc = "record"
    /\ IF ShouldRecord(video)
       THEN LET c == copy_deepcopy(heap, latent_estimate)
            IN  /\ heap' = c.heap
                /\ history' = Append(history, c.refs)
       ELSE UNCHANGED <<heap, history>>
    /\ i' = i + 1
    /\ pc' = "loop"
    /\ UNCHANGED <<generator, iterations, lr, optimizer_cls, init_type,
                   batch_size, video, init, latent_estimate, optimizer,
                   y_estimate, loss, err, steps, forwards, events, after,
                   applied, heap0, initial, mutated>>
    /\ UNCHANGED <<gvars, fvars, nvars>>

\* After the return the caller owns the latents and may change them in place.
CallerMutates ==
    /\ pc = "done"
    /\ ~mutated
    /\ mutated' = TRUE
    /\ heap' = [t \in 1..Len(heap) |->
                   IF t \in Range(latent_estimate)
                   THEN [heap[t] EXCEPT !.val = <<@[1] + 5 * @[2], @[2]>>]
                   ELSE heap[t]]
    /\ UNCHANGED <<pc, generator, iterations, lr, optimizer_cls, init_type,
                   batch_size, video, init, latent_estimate, optimizer,
                   history, i, y_estimate, loss, err, steps, forwards, events,
                   after, applied, heap0, initial>>
    /\ UNCHANGED <<gvars, fvars, nvars>>

\* The variables of the other two specifications, at rest.
GenIdle ==
    /\ g_pc = "idle"
    /\ gan_model_name = ""
    /\ generator_type = ""
    /\ composing_layer = 0
    /\ z_number = 0
    /\ g_batch = 0
    /\ g_result = NoResult
    /\ constructed = <<>>
    /\ g_sizes = <<>>
    /\ g_latents = <<>>
    /\ g_fwd = [ok |-> FALSE, pre |-> <<>>, out |-> <<>>]

FuseIdle ==
    /\ f_pc = "idle"
    /\ f_z_number = 0
    /\ f_pre = 0
    /\ f_z = <<>>
    /\ f_alpha = <<>>
    /\ f_j = 0
    /\ f_list = <<>>
    /\ f_fused = <<>>
    /\ f_y = <<>>

\* No PGGANGeneratorNet is being run directly.
NetIdle ==
    /\ n_pc = "idle"
    /\ n_resolution = 0
    /\ n_lod2 = 0
    /\ n_z = <<>>
    /\ n_res_log2 = 0
    /\ n_x = <<>>
    /\ n_image = <<>>
    /\ n_trace = <<>>
    /\ n_err = ""

Init == InitInvert /\ GenIdle /\ FuseIdle /\ NetIdle

Next ==
    \/ Initialize
    \/ LoopHead
    \/ Forward
    \/ ZeroGrad
    \/ Loss
    \/ Backward
    \/ Step
    \/ Record
    \/ CallerMutates

Spec == Init /\ [][Next]_vars

----------------------------------------------------------------------------
\* Properties of GradientDescent.invert (specification Spec).

\* C1: the returned history has exactly `iterations` entries when video is
\* True and none when it is False; with iterations = 0 no optimizer step is
\* performed, the history is empty and the returned latents are the initial
\* latents with the values they started with.
C1_HistoryLength ==
    pc = "done" =>
        /\ Len(history) = IF video THEN iterations ELSE 0
        /\ iterations = 0 =>
              /\ steps = 0
              /\ history = <<>>
              /\ ~mutated => Vals(heap, latent_estimate) = initial
              /\ (Len(init) # 0 /\ ~mutated) =>
                    /\ latent_estimate = init
                    /\ Vals(heap, init) = Vals(heap0, init)

C1_Witness ==
    pc = "done" /\ video /\ iterations >= 2 /\ Len(history) = iterations

\* C2: the k-th history entry holds the latent values as they were right
\* after the k-th optimizer step, whatever later steps or the caller do to
\* the live latents, and shares no tensor with the live latents or with
\* another entry.
C2_SnapshotsIndependent ==
    \A k \in 1..Len(history) :
        /\ Vals(heap, history[k]) = after[k]
        /\ Range(history[k]) \cap Range(latent_estimate) = {}
        /\ \A m \in 1..Len(history) :
              m # k => Range(history[k]) \cap Range(history[m]) = {}

C2_Witness ==
    /\ mutated
    /\ Len(history) >= 2
    /\ after[1] # after[2]
    /\ Vals(heap, latent_estimate) # after[2]

\* C3: explicit starting latents whose count differs from the length of
\* input_size() make invert fail with the assertion's error before any
\* forward pass or optimizer step and with every tensor, requires_grad
\* included, as the caller left it; when the count matches, the caller's
\* tensors are the starting latents.
C3_InitCountChecked ==
    /\ (Len(init) # 0 /\ Len(init) # Len(input_size(generator)) /\ pc # "init")
          => /\ pc = "error"
             /\ err = "AssertionError"
             /\ forwards = 0
             /\ steps = 0
             /\ heap = heap0
             /\ optimizer = NoOptimizer
    /\ (Len(init) # 0 /\ Len(init) = Len(input_size(generator)) /\ pc # "init")
          => /\ latent_estimate = init
             /\ initial = Vals(heap0, init)
             /\ err # "AssertionError"

C3_Witness ==
    /\ pc = "error"
    /\ err = "AssertionError"
    /\ Len(init) > Len(input_size(generator))
    /\ ~heap[init[1]].requires_grad

\* C8: no generator parameter ever changes value during a run, and the
\* optimizer's parameters are exactly the latent tensors.
C8_GeneratorFrozen ==
    /\ \A p \in GenParams : heap[p].val = heap0[p].val
    /\ pc \notin {"init", "error"} => optimizer.params = latent_estimate
    /\ Range(latent_estimate) \cap GenParams = {}

C8_Witness ==
    /\ pc = "done"
    /\ steps >= 2
    /\ optimizer_cls = "Adam"
    /\ generator.cls = "PGGAN_multi_z"
    /\ \A p \in GenParams : heap[p].prov # {} /\ heap[p].grad # 0
    /\ Vals(heap, latent_estimate) # initial

IterationOrder == <<"forward", "zero_grad", "loss", "backward", "step">>

\* C9: inside an iteration the events come in the order forward, zero_grad,
\* loss, backward, step; a forward pass starts only when every earlier
\* iteration has made its step and reads the values that step wrote; the
\* gradient a step applies was accumulated in its own iteration only.
C9_IterationOrder ==
    /\ Len(events) <= Len(IterationOrder)
    /\ events = SubSeq(IterationOrder, 1, Len(events))
    /\ pc \in {"forward", "zero_grad", "loss", "backward", "step"}
          => steps = i /\ Len(after) = i
    /\ pc \in {"zero_grad", "loss", "backward", "step"}
          => /\ forwards = i + 1
             /\ y_estimate.reads = IF i = 0 THEN initial ELSE after[i]
    /\ pc = "record"
          => /\ steps = i + 1
             /\ events = IterationOrder
             /\ \A k \in 1..Len(applied) : applied[k] = {i + 1}

C9_Witness ==
    /\ pc = "record"
    /\ i >= 1
    /\ Len(init) # 0
    /\ heap0[init[1]].prov # {}
    /\ after[i] # initial

Phase ==
    IF pc = "init" THEN "UNINITIALIZED"
    ELSE IF pc = "done" THEN "DONE"
    ELSE IF pc = "error" THEN "ERROR"
    ELSE "ITERATING"

\* C10: a run goes UNINITIALIZED -> ITERATING -> DONE and nowhere else, except
\* that an error ends it from UNINITIALIZED or ITERATING for good; it reaches
\* DONE with exactly `iterations` optimizer steps made, one at a time,
\* whatever the losses were, and makes none afterwards.
C10_StateMachine ==
    [][ /\ Phase' # Phase =>
              <<Phase, Phase'>> \in {<<"UNINITIALIZED", "ITERATING">>,
                                     <<"ITERATING", "DONE">>,
                                     <<"UNINITIALIZED", "ERROR">>,
                                     <<"ITERATING", "ERROR">>}
        /\ Phase' = "DONE" => steps' = iterations
        /\ steps' \in {steps, steps + 1}
        /\ steps' <= iterations
        /\ Phase \in {"DONE", "ERROR"} => steps' = steps
      ]_vars

C10_Witness ==
    /\ pc = "done"
    /\ iterations >= 2
    /\ steps = iterations
    /\ loss = "zero"

\* C11: with no explicit starting latents, the latents are those of the
\* generator's init_value(batch_size) exactly when generator.init is set, and
\* otherwise the fill of init_type (Zero: zeros, Normal: drawn values); when
\* the loop is entered they are new tensors, one per entry of input_size(),
\* each of shape (batch_size,) + the declared shape, all with requires_grad.
C11_StartingLatents ==
    (Len(init) = 0 /\ pc \notin {"init", "error"}) =>
        LET sizes == input_size(generator)
            now == Vals(heap, latent_estimate)
        IN  /\ Len(latent_estimate) = Len(sizes)
            /\ \A k \in 1..Len(latent_estimate) :
                  /\ latent_estimate[k] > Len(heap0)
                  /\ heap[latent_estimate[k]].shape = <<batch_size>> \o sizes[k]
                  /\ heap[latent_estimate[k]].requires_grad
                  /\ \A m \in 1..Len(latent_estimate) :
                        m # k => latent_estimate[m] # latent_estimate[k]
            /\ (pc = "loop" /\ i = 0) =>
                  /\ now = initial
                  /\ generator.init =>
                        \E sample \in Samples :
                            now = Vals(init_value(generator, batch_size, sample),
                                       <<1, 2>>)
                  /\ (~generator.init /\ init_type = "Zero") =>
                        \A k \in 1..Len(now) : now[k] = <<0, 1>>
                  /\ (~generator.init /\ init_type = "Normal") =>
                        \E sample \in Samples :
                            \A k \in 1..Len(now) : now[k] = <<sample, 1>>

C11_Witness ==
    /\ pc = "loop"
    /\ i = 0
    /\ Len(init) = 0
    /\ iterations >= 1
    /\ generator.init
    /\ init_type = "Zero"
    /\ Len(latent_estimate) = 2
    /\ heap[latent_estimate[2]].val = <<1, MaxZ>>
    /\ heap[latent_estimate[1]].requires_grad

----------------------------------------------------------------------------
\* Specification SpecGen: a generator is constructed by name, asked for its
\* input sizes and its starting values, and run on zero tensors of the
\* declared shapes.

InvertIdle ==
    /\ pc = "idle"
    /\ generator = None
    /\ iterations = 0
    /\ lr = 0
    /\ optimizer_cls = ""
    /\ init_type = ""
    /\ batch_size = 0
    /\ video = FALSE
    /\ init = <<>>
    /\ heap = <<>>
    /\ latent_estimate = <<>>
    /\ optimizer = NoOptimizer
    /\ history = <<>>
    /\ i = 0
    /\ y_estimate = NoImage
    /\ loss = ""
    /\ err = ""
    /\ steps = 0
    /\ forwards = 0
    /\ events = <<>>
    /\ after = <<>>
    /\ applied = <<>>
    /\ heap0 = <<>>
    /\ initial = <<>>
    /\ mutated = FALSE

ModelNames == {"PGGAN-CelebA", "PGGAN-bedroom"}

RecognizedTypes == {"PGGAN-z", "PGGAN-Multi-Z"}

GeneratorTypes == RecognizedTypes \cup {"PGGAN", "StyleGAN-z"}

\* Split indices on both sides of both topology tables.
SplitIndices ==
    (-(Len(PGGAN_LATENT_1024) + 1))..(Len(PGGAN_LATENT_1024) + 1)

TopologyTable(gan_model_name_) ==
    IF gan_model_name_ = "PGGAN-CelebA" THEN PGGAN_LATENT_1024
    ELSE PGGAN_LATENT_256

GenStart ==
    /\ g_pc = "start"
    /\ gan_model_name \in ModelNames
    /\ generator_type \in GeneratorTypes
    /\ composing_layer \in SplitIndices
    /\ z_number \in 1..MaxZ
    /\ g_batch \in 1..MaxBatch
    /\ g_result = NoResult
    /\ constructed = <<>>
    /\ g_sizes = <<>>
    /\ g_latents = <<>>
    /\ g_fwd = [ok |-> FALSE, pre |-> <<>>, out |-> <<>>]

\* generator = get_derivable_generator(gan_model_name, generator_type, args)
Construct ==
    /\ g_pc = "start"
    /\ g_result' = get_derivable_generator(gan_model_name, generator_type,
                                           composing_layer, z_number)
    /\ constructed' = g_result'.calls
    /\ g_pc' = IF g_result'.raised THEN "raised" ELSE "built"
    /\ UNCHANGED <<gan_model_name, generator_type, composing_layer, z_number,
                   g_batch, g_sizes, g_latents, g_fwd>>
    /\ UNCHANGED <<ivars, fvars, nvars>>

\* generator.input_size()
CallInputSize ==
    /\ g_pc = "built"
    /\ g_sizes' = input_size(g_result.value)
    /\ g_pc' = "sized"
    /\ UNCHANGED <<gan_model_name, generator_type, composing_layer, z_number,
                   g_batch, g_result, constructed, g_latents, g_fwd>>
    /\ UNCHANGED <<ivars, fvars, nvars>>

\* generator.init_value(batch_size), of the wrapper that has one.
CallInitValue ==
    /\ g_pc = "sized"
    /\ g_result.value.init
    /\ \E sample \in Samples :
          g_latents' = init_value(g_result.value, g_batch, sample)
    /\ g_pc' = "valued"
    /\ UNCHANGED <<gan_model_name, generator_type, composing_layer, z_number,
                   g_batch, g_result, constructed, g_sizes, g_fwd>>
    /\ UNCHANGED <<ivars, fvars, nvars>>

\* generator(latents) on zero tensors of the shapes input_size() declared.
CallForward ==
    /\ g_pc \in {"sized", "valued"}
    /\ g_fwd' = forward_shape(g_result.value,
                              [k \in 1..Len(g_sizes) |->
                                  torch_zeros(<<g_batch>> \o g_sizes[k]).shape])
    /\ g_pc' = "forwarded"
    /\ UNCHANGED <<gan_model_name, generator_type, composing_layer, z_number,
                   g_batch, g_result, constructed, g_sizes, g_latents>>
    /\ UNCHANGED <<ivars, fvars, nvars>>

NextGen ==
    \/ Construct
    \/ CallInputSize
    \/ CallInitValue
    \/ CallForward

InitGen == GenStart /\ InvertIdle /\ FuseIdle /\ NetIdle

SpecGen == InitGen /\ [][NextGen]_vars

----------------------------------------------------------------------------
\* Properties of the wrappers (specification SpecGen).

NamesValue(msg, v) == \E k \in 1..Len(msg) : msg[k] = v

\* C4 as stated: an unrecognized generator_type raises an error whose message
\* names the value passed and no generator is constructed; each recognized
\* value returns its wrapper.
C4_MessageNamesValue ==
    g_pc # "start" =>
        /\ generator_type \notin RecognizedTypes
              => /\ g_result.raised
                 /\ NamesValue(g_result.msg, generator_type)
                 /\ constructed = <<>>
        /\ generator_type = "PGGAN-z"
              => ~g_result.raised /\ g_result.value.cls = "PGGAN"
        /\ generator_type = "PGGAN-Multi-Z"
              => ~g_result.raised /\ g_result.value.cls = "PGGAN_multi_z"

\* C4 (amended): an unrecognized generator_type raises an Exception with the
\* fixed message 'Please indicate valid `generator_type`', whatever the value
\* passed, and no wrapper constructor is entered; 'PGGAN-z' returns the
\* single-code wrapper; 'PGGAN-Multi-Z' enters the multi-code wrapper's
\* constructor and returns the wrapper, unless composing_layer is no index of
\* the topology table, when that constructor raises IndexError.
C4_Dispatch ==
    g_pc # "start" =>
        /\ generator_type \notin RecognizedTypes
              => /\ g_result.raised
                 /\ g_result.exc = "Exception"
                 /\ g_result.msg = InvalidTypeMessage
                 /\ g_result.value = None
                 /\ constructed = <<>>
        /\ generator_type = "PGGAN-z"
              => /\ ~g_result.raised
                 /\ g_result.value.cls = "PGGAN"
                 /\ constructed = <<"PGGAN">>
        /\ generator_type = "PGGAN-Multi-Z"
              => /\ constructed = <<"PGGAN_multi_z">>
                 /\ g_result.raised <=>
                       ~PyIndexOk(TopologyTable(gan_model_name), composing_layer)
                 /\ g_result.raised => g_result.exc = "IndexError"
                 /\ ~g_result.raised => g_result.value.cls = "PGGAN_multi_z"

C4_Witness ==
    /\ g_pc = "raised"
    /\ generator_type = "StyleGAN-z"
    /\ g_result.exc = "Exception"
    /\ ~NamesValue(g_result.msg, generator_type)

\* C5: init_value returns two tensors, z_estimate of shape
\* (batch, z_number, z_dim) and alpha of shape (batch, z_number,
\* layer_channels), indexed by the same z_number codes, and alpha is filled
\* with exactly 1/z_number.
C5_InitValue ==
    g_pc = "valued" =>
        /\ Len(g_latents) = 2
        /\ g_latents[1].shape = <<g_batch, z_number, 512>>
        /\ g_latents[2].shape =
              <<g_batch, z_number,
                PyIndex(TopologyTable(gan_model_name), composing_layer)[1]>>
        /\ g_latents[1].shape[2] = g_latents[2].shape[2]
        /\ g_latents[2].val[2] > 0
        /\ g_latents[2].val[1] * z_number = g_latents[2].val[2]
        /\ <<g_latents[1].shape, g_latents[2].shape>>
              = <<<<g_batch>> \o g_sizes[1], <<g_batch>> \o g_sizes[2]>>

C5_Witness ==
    /\ g_pc = "valued"
    /\ z_number = 3
    /\ g_batch = 2
    /\ g_latents[2].val = <<1, 3>>
    /\ g_latents[2].shape = <<2, 3, 256>>

\* C7 as stated: with any split index the constructor accepted, the forward
\* pass on tensors of the declared shapes meets no shape error, and the
\* pre-stage produces a feature map of layer_channels channels and of spatial
\* size mask_size.
C7_SplitShapesAgree ==
    (g_pc = "forwarded" /\ g_result.value.cls = "PGGAN_multi_z") =>
        /\ g_fwd.ok
        /\ g_fwd.pre = <<g_result.value.layer_c_number>>
                          \o g_result.value.mask_size

\* The same for the split indices counted from the start of the table only.
C7_FromStartOnly ==
    (g_pc = "forwarded" /\ g_result.value.cls = "PGGAN_multi_z"
        /\ composing_layer >= 0) =>
        /\ g_fwd.ok
        /\ g_fwd.pre = <<g_result.value.layer_c_number>>
                          \o g_result.value.mask_size
        /\ g_fwd.out = <<image_channels, ModelResolution(gan_model_name),
                         ModelResolution(gan_model_name)>>

----------------------------------------------------------------------------
\* Specification SpecFuse: the arithmetic of PGGAN_multi_z.forward, on feature
\* maps of two channels and two spatial positions, for one batch element.

Channels == {1, 2}

Positions == {1, 2}

Codes == {0, 1}

AlphaVals == {1, 2}

PreModels == {1, 2}

\* Stand-ins for the frozen pre-stage: two fixed functions from a latent code
\* to a feature map, different in every channel and position.
PreStage(m, code) ==
    [c \in Channels |-> [p \in Positions |->
        IF m = 1 THEN 3 * code + 2 * c + p - 4
        ELSE (code + 1) * (c - 2 * p) + code]]

\* Stand-in for the frozen post-stage: the to-image projection adds the
\* channels of each position (numerators over the common denominator).
PostStage(fused) ==
    [p \in Positions |->
        <<fused[1][p][1] + fused[2][p][1], fused[1][p][2]>>]

FuseStart ==
    /\ f_pc = "loop"
    /\ f_z_number \in 1..MaxZ
    /\ f_pre \in PreModels
    /\ f_z \in [1..f_z_number -> Codes]
    /\ f_alpha \in [1..f_z_number -> [Channels -> AlphaVals]]
    /\ f_j = 0
    /\ f_list = <<>>
    /\ f_fused = <<>>
    /\ f_y = <<>>

\* Weighted with the weights indexed by spatial position instead of channel.
Weighted_by_position(feature, alpha_j) ==
    [c \in Channels |-> [p \in Positions |-> feature[c][p] * alpha_j[p]]]

\* Line 109: feature * alpha.view((-1, layer_c_number, 1, 1)), the weight of
\* a channel applied to all its positions.
Weighted(feature, alpha_j) ==
    [c \in Channels |-> [p \in Positions |-> feature[c][p] * alpha_j[c]]]

RECURSIVE SumList(_, _, _)
SumList(list, c, p) ==
    IF list = <<>> THEN 0 ELSE Head(list)[c][p] + SumList(Tail(list), c, p)

\* Line 111: sum(feature_maps_list) / self.z_number, element by element.
FusedMean(list, z_number_) ==
    [c \in Channels |-> [p \in Positions |-> <<SumList(list, c, p), z_number_>>]]

\* Lines 105-109: one turn of the loop over the codes.
FuseAppend ==
    /\ f_pc = "loop"
    /\ f_j < f_z_number
    /\ f_list' = Append(f_list,
                        Weighted(PreStage(f_pre, f_z[f_j + 1]), f_alpha[f_j + 1]))
    /\ f_j' = f_j + 1
    /\ UNCHANGED <<f_pc, f_z_number, f_pre, f_z, f_alpha, f_fused, f_y>>
    /\ UNCHANGED <<ivars, gvars, nvars>>

\* Line 111.
FuseMean ==
    /\ f_pc = "loop"
    /\ f_j = f_z_number
    /\ f_fused' = FusedMean(f_list, f_z_number)
    /\ f_pc' = "fused"
    /\ UNCHANGED <<f_z_number, f_pre, f_z, f_alpha, f_j, f_list, f_y>>
    /\ UNCHANGED <<ivars, gvars, nvars>>

\* Lines 112-113.
FusePost ==
    /\ f_pc = "fused"
    /\ f_y' = PostStage(f_fused)
    /\ f_pc' = "returned"
    /\ UNCHANGED <<f_z_number, f_pre, f_z, f_alpha, f_j, f_list, f_fused>>
    /\ UNCHANGED <<ivars, gvars, nvars>>

NextFuse ==
    \/ FuseAppend
    \/ FuseMean
    \/ FusePost

InitFuse == FuseStart /\ InvertIdle /\ GenIdle /\ NetIdle

SpecFuse == InitFuse /\ [][NextFuse]_vars

RECURSIVE WeightedSum(_, _, _)
WeightedSum(js, c, p) ==
    IF js = {} THEN 0
    ELSE LET j == CHOOSE j \in js : TRUE
         IN  PreStage(f_pre, f_z[j])[c][p] * f_alpha[j][c]
                + WeightedSum(js \ {j}, c, p)

\* C6: every element of the fused feature map is the arithmetic mean, over
\* the z_number codes j, each taken once, of pre_stage(z_j) times the weight
\* alpha_j of the element's channel.
C6_FusedIsMean ==
    f_pc \in {"fused", "returned"} =>
        /\ Len(f_list) = f_z_number
        /\ \A c \in Channels, p \in Positions :
              /\ f_fused[c][p][2] = f_z_number
              /\ f_fused[c][p][1] = WeightedSum(1..f_z_number, c, p)

C6_Witness ==
    /\ f_pc = "fused"
    /\ f_z_number = 3
    /\ f_z[1] # f_z[2]
    /\ f_alpha[1][1] # f_alpha[1][2]
    /\ f_alpha[1] # f_alpha[3]
    /\ f_fused[1][1] # f_fused[1][2]
    /\ f_fused[1][1][1] % 3 # 0

----------------------------------------------------------------------------
\* Specification SpecNet: a PGGANGeneratorNet is constructed, its parameter
\* lod takes a value, and forward runs on a latent, one pass of the loop of
\* line 187 at a time.

\* Resolutions a caller may pass: the supported ones and two that are not.
Resolutions == _RESOLUTIONS_ALLOWED \cup {_INIT_RES, 3 * _INIT_RES}

\* final_res_log2 - init_res_log2 of the largest network.
MaxDepth ==
    LET top == CHOOSE r \in _RESOLUTIONS_ALLOWED :
                   \A q \in _RESOLUTIONS_ALLOWED : q <= r
    IN  Log2(top) - Log2(_INIT_RES)

\* Values of the scalar parameter lod, in halves: from below zero to beyond
\* the depth of the largest network.
Lod2Values == (-LodMargin) .. (2 * MaxDepth + LodMargin)

\* Shapes of the argument z.
ZShapes ==
    {<<1, z_space_dim>>, <<MaxBatch, z_space_dim>>, <<1, z_space_dim \div 2>>,
     <<z_space_dim>>, <<1, z_space_dim, 1>>}

init_res_log2 == Log2(_INIT_RES)

final_res_log2 == Log2(n_resolution)

NetStart ==
    /\ n_pc = "new"
    /\ n_resolution = 0
    /\ n_lod2 = 0
    /\ n_z = <<>>
    /\ n_res_log2 = 0
    /\ n_x = <<>>
    /\ n_image = <<>>
    /\ n_trace = <<>>
    /\ n_err = ""

\* __init__: the resolution check, then lod = 0.
NetConstruct ==
    /\ n_pc = "new"
    /\ \E resolution \in Resolutions :
        /\ n_resolution' = resolution
        /\ IF resolution \notin _RESOLUTIONS_ALLOWED
           THEN n_pc' = "error" /\ n_err' = "ValueError"
           ELSE n_pc' = "built" /\ n_err' = ""
    /\ n_lod2' = 0
    /\ UNCHANGED <<n_z, n_res_log2, n_x, n_image, n_trace>>
    /\ UNCHANGED <<ivars, gvars, fvars>>

\* The parameter lod receives a value (a loaded checkpoint, a training step).
NetSetLod ==
    /\ n_pc = "built"
    /\ \E l \in Lod2Values : n_lod2' = l
    /\ n_lod2' # n_lod2
    /\ UNCHANGED <<n_pc, n_resolution, n_z, n_res_log2, n_x, n_image, n_trace,
                   n_err>>
    /\ UNCHANGED <<ivars, gvars, fvars>>

\* forward, up to the loop: the check of z, x = z.view(...), lod read.
NetForwardStart ==
    /\ n_pc = "built"
    /\ \E z \in ZShapes :
        /\ n_z' = z
        /\ IF ~(Len(z) = 2 /\ z[2] = z_space_dim)
           THEN /\ n_pc' = "error"
                /\ n_err' = "ValueError"
                /\ UNCHANGED <<n_x, n_res_log2>>
           ELSE /\ n_pc' = "run"
                /\ n_err' = ""
                /\ n_x' = <<z_space_dim, 1, 1>>
                /\ n_res_log2' = init_res_log2
    /\ UNCHANGED <<n_resolution, n_lod2, n_image, n_trace>>
    /\ UNCHANGED <<ivars, gvars, fvars>>

\* res_log2 + lod <= self.final_res_log2, with lod in halves.
StageRuns == 2 * n_res_log2 + n_lod2 <= 2 * final_res_log2

\* One pass of the loop through the if branch: the two layers and the output
\* layer of the block.
NetStage ==
    /\ n_pc = "run"
    /\ n_res_log2 <= final_res_log2
    /\ StageRuns
    /\ LET modules == BlockModules(n_res_log2)
           x1 == ConvBlock_forward(modules[1], n_x)
           x2 == IF x1.ok THEN ConvBlock_forward(modules[2], x1.shape)
                 ELSE ShapeError
           img == IF x2.ok THEN ConvBlock_forward(modules[3], x2.shape)
                  ELSE ShapeError
       IN  IF img.ok
           THEN /\ n_x' = x2.shape
                /\ n_image' = img.shape
                /\ n_trace' = Append(n_trace, <<"stage", n_res_log2>>)
                /\ n_res_log2' = n_res_log2 + 1
                /\ UNCHANGED <<n_pc, n_err>>
           ELSE /\ n_pc' = "error"
                /\ n_err' = "RuntimeError"
                /\ UNCHANGED <<n_x, n_image, n_trace, n_res_log2>>
    /\ UNCHANGED <<n_resolution, n_lod2, n_z>>
    /\ UNCHANGED <<ivars, gvars, fvars>>

\* One pass of the loop through the else branch: image = upsample(image);
\* reading image while no stage has assigned it raises UnboundLocalError.
NetUpsample ==
    /\ n_pc = "run"
    /\ n_res_log2 <= final_res_log2
    /\ ~StageRuns
    /\ n_trace' = Append(n_trace, <<"upsample", n_res_log2>>)
    /\ IF n_image = <<>>
       THEN /\ n_pc' = "error"
            /\ n_err' = "UnboundLocalError"
            /\ UNCHANGED <<n_image, n_res_log2>>
       ELSE /\ n_image' = ResolutionScalingLayer_forward(
                              ResolutionScalingLayer(<<"upsample", 0>>),
                              n_image).shape
            /\ n_res_log2' = n_res_log2 + 1
            /\ UNCHANGED <<n_pc, n_err>>
    /\ UNCHANGED <<n_resolution, n_lod2, n_z, n_x>>
    /\ UNCHANGED <<ivars, gvars, fvars>>

\* The loop is over: return image.
NetReturn ==
    /\ n_pc = "run"
    /\ n_res_log2 > final_res_log2
    /\ n_pc' = "done"
    /\ UNCHANGED <<n_resolution, n_lod2, n_z, n_res_log2, n_x, n_image,
                   n_trace, n_err>>
    /\ UNCHANGED <<ivars, gvars, fvars>>

NextNet ==
    \/ NetConstruct
    \/ NetSetLod
    \/ NetForwardStart
    \/ NetStage
    \/ NetUpsample
    \/ NetReturn

InitNet == NetStart /\ InvertIdle /\ GenIdle /\ FuseIdle

SpecNet == InitNet /\ [][NextNet]_vars

\* The passes of the loop so far: executed stages first and in resolution
\* order, every later pass an upsampling, and none of those first.
PrefixThenUpsamples ==
    /\ \A k \in 1..Len(n_trace) : n_trace[k][2] = init_res_log2 + k - 1
    /\ \A j, k \in 1..Len(n_trace) :
          (j < k /\ n_trace[k][1] = "stage") => n_trace[j][1] = "stage"
    /\ \A k \in 1..Len(n_trace) :
          n_trace[k][1] = "upsample" => (k > 1 /\ n_trace[1][1] = "stage")

\* forward on a well-shaped latent: nothing raised, and what is returned is
\* an image of the configured resolution after one pass per resolution.
ReturnsConfiguredResolution ==
    /\ n_pc # "error"
    /\ n_pc = "done" =>
          /\ Len(n_trace) = final_res_log2 - init_res_log2 + 1
          /\ n_image = <<image_channels, n_resolution, n_resolution>>

\* C12: in forward, for every value of lod, the executed stages are a prefix
\* of the resolution-ordered stages, every skipped stage is one 2x upsampling
\* of the last image, no upsampling comes before a stage has produced an
\* image, and the returned image has the configured resolution.
C12_ForwardEveryLod ==
    n_pc \in {"run", "done"} \/ (n_pc = "error" /\ n_z # <<>> /\ n_err # "ValueError")
        => (PrefixThenUpsamples /\ ReturnsConfiguredResolution)

\* The same with lod no larger than final_res_log2 - init_res_log2, so that
\* the first stage runs.
C12_FirstStageRuns ==
    (/\ n_pc \in {"run", "done", "error"}
     /\ n_z # <<>>
     /\ n_err # "ValueError"
     /\ n_lod2 <= 2 * (final_res_log2 - init_res_log2))
        => (PrefixThenUpsamples /\ ReturnsConfiguredResolution)

\* A run with a fractional lod that skipped stages and returned.
C12_SkippedStagesReturned ==
    /\ n_pc = "done"
    /\ n_lod2 % 2 = 1
    /\ \E k \in 1..Len(n_trace) : n_trace[k][1] = "upsample"
    /\ n_image = <<image_channels, n_resolution, n_resolution>>

====
